---- MODULE Spec2Model ----
(***************************************************************************)
(* Booking / seat / payment coordination core of Bulbul.                   *)
(*                                                                         *)
(* The store (seats, bookings, booking_seats) is the shared state.  Every  *)
(* SQL statement or transaction is one atomic step; a service method, a    *)
(* bus consumer and the expiration job are tasks that run their statements *)
(* one after another and interleave freely with the other tasks.           *)
(*                                                                         *)
(* Sources: SeatService (src/unnamed/part_000), BookingService             *)
(* (src/internal/service/bookings.go), the repositories, the bus consumers *)
(* (src/internal/consumers/handlers.go), BookingExpirationJob              *)
(* (src/cmd/consumers/main.go) and ResetService.  The bus is taken as      *)
(* connected: a published message stays on it until a consumer acks it.    *)
(* Calls to the ticketing provider and the payment gateway are folded into *)
(* the store statement that follows them.                                  *)
(*                                                                         *)
(* A later generation of the services (BookingService of                   *)
(* src/unnamed/part_002, SeatService of src/load-data.sh) reserves seats   *)
(* of every event locally and leaves the provider to ExternalSyncHandler   *)
(* (src/unnamed/part_023); it is modelled beside the first one, SpecSync,  *)
(* and with repeated deliveries, SpecResync.  SpecTotal runs payment and   *)
(* confirmation against seat selection and release.                        *)
(*                                                                         *)
(* The edge of the program has its own state: the events listing with its  *)
(* cache (Handlers.ListEvents, src/unnamed/part_006; SpecEvents), the      *)
(* payment pages' callbacks (SpecFail) and the BasicAuth middleware        *)
(* (src/internal/middleware/middleware.go; SpecAuth).                      *)
(*                                                                         *)
(* PaymentClient.generateToken (src/unnamed/part_011) is an operator,      *)
(* SpecToken.  Writes that return an error are actions of their own, used  *)
(* by SpecAck (consumers) and SpecSweep (expiration job).  SpecRelease,    *)
(* SpecInitiated and SpecFair let returned calls leave the count of calls, *)
(* so that calls follow one another without end; SpecFair adds the         *)
(* fairness of the ticker, of redelivery and of running goroutines.        *)
(***************************************************************************)
EXTENDS Integers, Sequences, FiniteSets, TLC

\* ---------------------------------------------------------------- bounds
MaxBookings == 2
MaxOps == 3
MaxPending == 1
InitialEvents == 5
MaxEvents == 6
MaxRequests == 3
MaxUsers == 2
MaxPayments == 1

Tasks == {1, 2}
Users == {1, 2}
\* event 1 is the external event; event 2 a regular one
EventIds == {1, 2}
\* seat 1 is a place of event 1, seat 2 a seat of event 2
Seats == {1, 2}
BookingIds == 1..MaxBookings

SeatEvent(s) == IF s = 1 THEN 1 ELSE 2
\* seats.price is nullable: <<>> is NULL, <<p>> the price p; the place of
\* event 1 carries no price
SeatPrice(s) == IF s = 1 THEN <<>> ELSE <<1000 * s>>

VARIABLES
    seats,        \* seats.status by seat id
    bookings,     \* bookings rows by id (NoBooking: no such row)
    links,        \* booking_seats rows <<booking_id, seat_id>>
    nextBooking,  \* the bookings.id sequence
    remote,       \* ticketing provider: place -> order holding it (NoOrder: free)
    nextOrder,    \* ticketing provider: orders started so far
    nextPayment,  \* payment gateway: payments initialised so far
    bus,          \* published, not yet acknowledged messages
    tasks,        \* running calls
    last,         \* the call that returned last, with its result
    ops,          \* calls started so far
    events,       \* number of events in the store (ids 1..events)
    cache,        \* events-listing cache: key -> entry (NoEntry: none)
    reqs,         \* GET /api/events requests being served
    served,       \* the answer given last by GET /api/events
    asked,        \* GET /api/events requests started so far
    users,        \* users rows by email (NoUser: no such row)
    nextUser,     \* the users.user_id sequence
    authCache,    \* hash users:auth: field -> user id (0: no such field)
    auth          \* the outcome of the request BasicAuth handled last

dbVars == <<seats, bookings, links, nextBooking>>
extVars == <<remote, nextOrder, nextPayment>>
coreVars == <<seats, bookings, links, nextBooking, remote, nextOrder, nextPayment, bus, tasks, last, ops>>
\* the read side: events listing and its cache
authVars == <<users, nextUser, authCache, auth>>
edgeVars == <<events, cache, reqs, served, asked, authVars>>
vars == <<coreVars, edgeVars>>

\* ------------------------------------------------------------ data shapes
NoBooking == [id |-> 0]
NoOrder == <<>>
NoPayment == 0
NoMsg == [subject |-> "none"]
\* bookings.total_amount is a nullable string: <<>> is NULL
NoAmount == <<>>
\* the payment page of payment n; <<>> is the empty URL
NoURL == <<>>
PaymentURL(n) == <<"pay", n>>

ProviderOrder(n) == <<"order", n>>
UuidOrder(n) == <<"uuid", n>>

NewBooking(id, e, u) ==
    [id |-> id, event_id |-> e, user_id |-> u, status |-> "CREATED",
     payment_status |-> "PENDING", total_amount |-> NoAmount,
     payment_id |-> NoPayment, order_id |-> NoOrder, old |-> FALSE]

\* a booking of event 1 inserted with its order but not pre-confirmed
UnconfirmedBooking(id, u, order) == [NewBooking(id, 1, u) EXCEPT !.order_id = order]

ExternalBooking(id, u, order) ==
    [NewBooking(id, 1, u) EXCEPT !.order_id = order, !.status = "CONFIRMED",
                                 !.payment_status = "COMPLETED"]

IdleTask ==
    [op |-> "idle", pc |-> "idle", user |-> 0, bid |-> 0, sid |-> 0, owner |-> 0,
     snap |-> NoBooking, todo |-> <<>>, batch |-> <<>>, msg |-> NoMsg, order |-> NoOrder,
     url |-> NoURL]

Call(op, u, b, s) == [IdleTask EXCEPT !.op = op, !.pc = "run", !.user = u, !.bid = b, !.sid = s]

Ret(r, res) ==
    [op |-> r.op, user |-> r.user, bid |-> r.bid, sid |-> r.sid, owner |-> r.owner,
     msg |-> r.msg, url |-> r.url, res |-> res]

NoCall == Ret(IdleTask, "none")

Free(t) == tasks[t].pc = "idle"
\* a new call takes the lowest free worker (workers are interchangeable)
CanStart(t) == Free(t) /\ ops < MaxOps /\ \A t2 \in Tasks : t2 < t => ~Free(t2)

\* the call of task t goes on as r / returns res
Continue(t, r) == tasks' = [tasks EXCEPT ![t] = r] /\ UNCHANGED last
Finish(t, r, res) == tasks' = [tasks EXCEPT ![t] = IdleTask] /\ last' = Ret(r, res)

RECURSIVE SortedSeq(_)
SortedSeq(S) ==
    IF S = {} THEN <<>>
    ELSE LET m == CHOOSE x \in S : \A y \in S : x <= y
         IN <<m>> \o SortedSeq(S \ {m})

\* ------------------------------------------------------------ repositories
GetByID(b) == IF b \in BookingIds THEN bookings[b] ELSE NoBooking

GetSeats(b) == SortedSeq({s \in Seats : <<b, s>> \in links})

BookingsOfSeat(s) == {b \in BookingIds : <<b, s>> \in links /\ bookings[b].id # 0}

GetBookingBySeatID(s) ==
    IF BookingsOfSeat(s) = {} THEN NoBooking
    ELSE bookings[CHOOSE b \in BookingsOfSeat(s) : \A c \in BookingsOfSeat(s) : b <= c]

UpdateRow(row) ==
    IF row.id \in BookingIds /\ bookings[row.id].id # 0
    THEN [bookings EXCEPT ![row.id] =
              [@ EXCEPT !.status = row.status, !.payment_status = row.payment_status,
                        !.total_amount = row.total_amount, !.payment_id = row.payment_id,
                        !.order_id = row.order_id]]
    ELSE bookings

ReserveSeatResult(s, b) ==
    IF seats[s] # "FREE" THEN "SeatNotAvailable"
    ELSE IF GetByID(b).id = 0 \/ <<b, s>> \in links THEN "Error"
    ELSE "OK"

ReservedSeats(s) == [seats EXCEPT ![s] = "RESERVED"]
ReservedLinks(s, b) == links \cup {<<b, s>>}

ReleasedSeats(s) == [seats EXCEPT ![s] = "FREE"]
ReleasedLinks(s) == {l \in links : l[2] # s}

UpdateStatus(s, status) == [seats EXCEPT ![s] = status]

\* ------------------------------------------------------- events listing
\* query and date filters, pages and page sizes a request may carry
Filters == {<<"", "">>, <<"rock", "">>, <<"", "2025-09-01">>}
Pages == {1, 2}
PageSizes == {0, 5, 7, 10}

\* one key for every page size
PageOnlyKey(page, pageSize) == <<"events:list:page", page>>

generateEventsListCacheKey(page, pageSize) == <<"events:list:page", page, "size", pageSize>>

CacheKeys == {generateEventsListCacheKey(p, s) : p \in Pages, s \in PageSizes}

NoEntry == [body |-> <<"nil">>, seen |-> 0]

IdleRequest ==
    [pc |-> "idle", query |-> "", date |-> "", page |-> 0, size |-> 0, resp |-> <<>>, seen |-> 0,
     readErr |-> FALSE, writeErr |-> FALSE]

NoAnswer == [status |-> 0]

\* seen: the number of events the body was computed from; readErr, writeErr:
\* the cache read / write of the request failed (kept for the properties;
\* they are not part of the answer)
Answer(r, body, hit, seen) ==
    [status |-> 200, body |-> body, hit |-> hit, query |-> r.query, date |-> r.date,
     page |-> r.page, size |-> r.size, seen |-> seen, readErr |-> r.readErr,
     writeErr |-> r.writeErr]

BadRequest(r) ==
    [status |-> 400, body |-> <<>>, hit |-> FALSE, query |-> r.query, date |-> r.date,
     page |-> r.page, size |-> r.size, seen |-> 0, readErr |-> FALSE, writeErr |-> FALSE]

\* the answer of a handler that gives up
ServerError(r) ==
    [status |-> 500, body |-> <<>>, hit |-> FALSE, query |-> r.query, date |-> r.date,
     page |-> r.page, size |-> r.size, seen |-> 0, readErr |-> r.readErr,
     writeErr |-> r.writeErr]

\* the events a text query / a date filter selects
Matches(id, query, date) ==
    /\ (query = "" \/ id % 2 = 1)
    /\ (date = "" \/ id <= 3)

RECURSIVE SkipTake(_, _, _)
SkipTake(q, from, size) ==
    IF q = <<>> \/ size = 0 THEN <<>>
    ELSE IF from > 0 THEN SkipTake(Tail(q), from - 1, size)
    ELSE <<Head(q)>> \o SkipTake(Tail(q), 0, size - 1)

\* sorted by id, from (page - 1) * pageSize, pageSize hits
Search(n, query, date, page, pageSize) ==
    SkipTake(SortedSeq({id \in 1..n : Matches(id, query, date)}), (page - 1) * pageSize, pageSize)

\* EventService.List: id and title of each hit
List(n, query, date, page, pageSize) ==
    LET hits == Search(n, query, date, page, pageSize)
    IN [i \in 1..Len(hits) |-> [id |-> hits[i], title |-> <<"title", hits[i]>>]]

\* json.Marshal of the response items
Marshal(items) ==
    <<"[">> \o [i \in 1..Len(items) |-> <<"id", items[i].id, "title", items[i].title>>] \o <<"]">>

\* caching whatever the query and the date are
shouldCacheAnyFilter(query, date, pageSize) == pageSize % 5 = 0

shouldCacheEventsRequest(query, date, pageSize) ==
    IF query # "" \/ date # "" THEN FALSE ELSE pageSize % 5 = 0

FreeRequest(t) == reqs[t].pc = "idle"

\* validation and the cache read
ListEventsBegin(t, f, page, pageSize) ==
    /\ FreeRequest(t) /\ \A t2 \in Tasks : t2 < t => ~FreeRequest(t2)
    /\ asked < MaxRequests
    /\ asked' = asked + 1
    /\ LET r == [IdleRequest EXCEPT !.query = f[1], !.date = f[2], !.page = page, !.size = pageSize]
           k == generateEventsListCacheKey(page, pageSize)
       IN IF page < 1 \/ pageSize < 1 \/ pageSize > 20 THEN
              served' = BadRequest(r) /\ UNCHANGED reqs
          ELSE IF shouldCacheEventsRequest(f[1], f[2], pageSize) /\ cache[k] # NoEntry THEN
              served' = Answer(r, cache[k].body, TRUE, cache[k].seen) /\ UNCHANGED reqs
          ELSE
              reqs' = [reqs EXCEPT ![t] = [r EXCEPT !.pc = "fetch"]] /\ UNCHANGED served
    /\ UNCHANGED <<events, cache, coreVars, authVars>>

\* giving up on a failed cache read
ListEventsReadAborts(t, f, page, pageSize) ==
    /\ FreeRequest(t) /\ \A t2 \in Tasks : t2 < t => ~FreeRequest(t2)
    /\ asked < MaxRequests
    /\ asked' = asked + 1
    /\ page >= 1 /\ pageSize >= 1 /\ pageSize <= 20
    /\ shouldCacheEventsRequest(f[1], f[2], pageSize)
    /\ served' = ServerError([IdleRequest EXCEPT !.query = f[1], !.date = f[2], !.page = page,
                                                !.size = pageSize, !.readErr = TRUE])
    /\ UNCHANGED <<events, cache, reqs, coreVars, authVars>>

\* validation and a cache read that fails (GetEventsListRaw returns an error
\* whatever the cache holds): the handler goes on to the store
ListEventsReadFails(t, f, page, pageSize) ==
    /\ FreeRequest(t) /\ \A t2 \in Tasks : t2 < t => ~FreeRequest(t2)
    /\ asked < MaxRequests
    /\ asked' = asked + 1
    /\ page >= 1 /\ pageSize >= 1 /\ pageSize <= 20
    /\ shouldCacheEventsRequest(f[1], f[2], pageSize)
    /\ reqs' = [reqs EXCEPT ![t] = [IdleRequest EXCEPT !.pc = "fetch", !.query = f[1], !.date = f[2],
                                                       !.page = page, !.size = pageSize,
                                                       !.readErr = TRUE]]
    /\ UNCHANGED <<events, cache, served, coreVars, authVars>>

\* the fetch from the store; a request that is not cached answers at once
ListEventsFetch(t) ==
    /\ reqs[t].pc = "fetch"
    /\ LET r == reqs[t]
           resp == List(events, r.query, r.date, r.page, r.size)
       IN IF shouldCacheEventsRequest(r.query, r.date, r.size) THEN
              /\ reqs' = [reqs EXCEPT ![t] = [r EXCEPT !.pc = "store", !.resp = resp, !.seen = events]]
              /\ UNCHANGED served
          ELSE
              /\ reqs' = [reqs EXCEPT ![t] = IdleRequest]
              /\ served' = Answer(r, Marshal(resp), FALSE, events)
    /\ UNCHANGED <<events, cache, asked, coreVars, authVars>>

\* SetEventsList and the answer; written: whether the SET reached the cache
ListEventsStore(t, written) ==
    /\ reqs[t].pc = "store"
    /\ LET r == reqs[t]
           k == generateEventsListCacheKey(r.page, r.size)
       IN /\ cache' = IF written THEN [cache EXCEPT ![k] = [body |-> Marshal(r.resp), seen |-> r.seen]]
                      ELSE cache
          /\ served' = Answer([r EXCEPT !.writeErr = ~written], Marshal(r.resp), FALSE, r.seen)
    /\ reqs' = [reqs EXCEPT ![t] = IdleRequest]
    /\ UNCHANGED <<events, asked, coreVars, authVars>>

\* the entry's time to live runs out
ExpireEntry(k) ==
    /\ cache[k] # NoEntry
    /\ cache' = [cache EXCEPT ![k] = NoEntry]
    /\ UNCHANGED <<events, reqs, served, asked, coreVars, authVars>>

\* POST /api/events
CreateEvent ==
    /\ events < MaxEvents
    /\ events' = events + 1
    /\ UNCHANGED <<cache, reqs, served, asked, coreVars, authVars>>

\* ---------------------------------------------------------------- BasicAuth
Emails == {"a@x", "b@x", "c@x"}

\* fmt.Sprintf("%x", sha256.Sum256(password)): a password is never its own hash
sha256hex(password) == <<"sha256">> \o password

\* passwords a request may present; the last one is the stored hash of the first
Passwords == {<<"pw1">>, <<"pw2">>, sha256hex(<<"pw1">>)}

\* password_hash values a users row may hold (<<>>: the empty string)
StoredHashes == {sha256hex(<<"pw1">>), sha256hex(<<"pw2">>), <<>>}

\* base64(email + ":" + passwordHash)
authField(email, passwordHash) == <<"base64", email, ":">> \o passwordHash

AuthFields == {authField(e, sha256hex(p)) : e \in Emails, p \in Passwords}

NoUser == [user_id |-> 0]
NoAuth == [status |-> 0]

\* the outcome of one request; ran: the protected handler was called
Passed(email, password, id, hit) ==
    [status |-> 200, user_id |-> id, ran |-> TRUE, email |-> email, password |-> password,
     hit |-> hit]

Rejected(email, password) ==
    [status |-> 401, user_id |-> 0, ran |-> FALSE, email |-> email, password |-> password,
     hit |-> FALSE]

\* accepting whatever the password is
anyPassword(user, passwordHash) == TRUE

verified(user, passwordHash) ==
    user.password_hash # <<>> /\ passwordHash = user.password_hash

\* the middleware; ok: the request carries a Basic credential, cacheUp and
\* dbUp: the lookup in the cache / in the store did not fail
BasicAuth(email, password, ok, cacheUp, dbUp) ==
    /\ LET passwordHash == sha256hex(password)
           field == authField(email, passwordHash)
           user == users[email]
       IN auth' =
            IF ~ok THEN Rejected("", <<>>)
            ELSE IF cacheUp /\ authCache[field] # 0 THEN Passed(email, password, authCache[field], TRUE)
            ELSE IF ~dbUp \/ user = NoUser \/ ~user.is_active THEN Rejected(email, password)
            ELSE IF ~verified(user, passwordHash) THEN Rejected(email, password)
            ELSE Passed(email, password, user.user_id, FALSE)
    /\ UNCHANGED <<users, nextUser, authCache>>
    /\ UNCHANGED <<events, cache, reqs, served, asked, coreVars>>

\* INSERT INTO users ... RETURNING user_id
CreateUser(email, hash, active) ==
    /\ nextUser <= MaxUsers
    /\ users[email] = NoUser
    /\ users' = [users EXCEPT ![email] =
                   [user_id |-> nextUser, password_hash |-> hash, is_active |-> active]]
    /\ nextUser' = nextUser + 1
    /\ UNCHANGED <<authCache, auth>>
    /\ UNCHANGED <<events, cache, reqs, served, asked, coreVars>>

\* the cache is filled out of band: the field of a users row gets the row's id
PopulateAuthCache(email) ==
    /\ users[email] # NoUser
    /\ users[email].password_hash # <<>>
    /\ authCache[authField(email, users[email].password_hash)] = 0
    /\ authCache' = [authCache EXCEPT ![authField(email, users[email].password_hash)] =
                       users[email].user_id]
    /\ UNCHANGED <<users, nextUser, auth>>
    /\ UNCHANGED <<events, cache, reqs, served, asked, coreVars>>

\* ------------------------------------------------------------- PaymentClient
\* the parameter names of the gateway in byte order, as sort.Strings puts them
KeysAscending == <<"Amount", "Currency", "OrderId", "Password", "PaymentId", "TeamSlug">>

\* strconv.FormatInt(n, 10) for n >= 0, as a sequence of characters
RECURSIVE FormatInt(_)
FormatInt(n) ==
    LET d == <<"0", "1", "2", "3", "4", "5", "6", "7", "8", "9">>[(n % 10) + 1]
    IN IF n < 10 THEN <<d>> ELSE FormatInt(n \div 10) \o <<d>>

\* the keys as the range over the map yields them
keysAsIterated(keys) == keys

\* sort.Strings
RECURSIVE sortStrings(_)
sortStrings(keys) ==
    IF keys = <<>> THEN <<>>
    ELSE LET rank(k) == CHOOSE i \in 1..Len(KeysAscending) : KeysAscending[i] = k
             m == CHOOSE i \in 1..Len(keys) : \A j \in 1..Len(keys) : rank(keys[i]) <= rank(keys[j])
         IN <<keys[m]>> \o sortStrings([i \in 1..(Len(keys) - 1) |-> IF i < m THEN keys[i] ELSE keys[i + 1]])

\* params: the map the caller built; iterated: the order in which the range
\* over the map yields its keys
generateToken(params, iterated, teamSlug, password) ==
    LET all == [k \in DOMAIN params \cup {"TeamSlug", "Password"} |->
                   IF k = "TeamSlug" THEN teamSlug
                   ELSE IF k = "Password" THEN password ELSE params[k]]
        keys == sortStrings(iterated)
        RECURSIVE tokenString(_)
        tokenString(i) == IF i = 0 THEN <<>> ELSE tokenString(i - 1) \o all[keys[i]]
    IN sha256hex(tokenString(Len(keys)))

\* the maps of InitPayment, CheckPayment and ConfirmPayment
TokenParams ==
    {[Amount |-> FormatInt(a), Currency |-> <<"K", "Z", "T">>, OrderId |-> o] :
        a \in {7, 1200}, o \in {<<"o", "1">>, <<"2">>}}
    \cup {[PaymentId |-> <<"p", "1">>]}
    \cup {[Amount |-> FormatInt(a), PaymentId |-> <<"p", "1">>] : a \in {7, 1200}}

\* the orders in which a range over a map with these keys can yield them
Iterations(keys) ==
    {q \in [1..Cardinality(keys) -> keys] : \A i, j \in DOMAIN q : i # j => q[i] # q[j]}

\* the client keeps no state between requests: one request is followed
TokenRequest(params, iterated, teamSlug, password) ==
    /\ last.op # "generateToken"
    /\ last' = Ret([Call("generateToken", 0, 0, 0) EXCEPT !.msg =
                       [subject |-> "token", params |-> params, iterated |-> iterated,
                        teamSlug |-> teamSlug, password |-> password,
                        token |-> generateToken(params, iterated, teamSlug, password)]], "OK")
    /\ UNCHANGED <<dbVars, extVars, bus, tasks, ops>>
    /\ UNCHANGED edgeVars

\* ------------------------------------------------------------------- Init
Init ==
    /\ seats = [s \in Seats |-> "FREE"]
    /\ bookings = [b \in BookingIds |-> NoBooking]
    /\ links = {}
    /\ nextBooking = 1
    /\ remote = [s \in {x \in Seats : SeatEvent(x) = 1} |-> NoOrder]
    /\ nextOrder = 1
    /\ nextPayment = 1
    /\ bus = {}
    /\ tasks = [t \in Tasks |-> IdleTask]
    /\ last = NoCall
    /\ ops = 0
    /\ events = InitialEvents
    /\ cache = [k \in CacheKeys |-> NoEntry]
    /\ reqs = [t \in Tasks |-> IdleRequest]
    /\ served = NoAnswer
    /\ asked = 0
    /\ users = [e \in Emails |-> NoUser]
    /\ nextUser = 1
    /\ authCache = [f \in AuthFields |-> 0]
    /\ auth = NoAuth

\* ---------------------------------------------------- BookingService.Create
\* started: whether TicketingClient.StartOrder answers with an order
CreateBooking(u, e, started) ==
    /\ nextBooking <= MaxBookings
    /\ IF e = 1 /\ ~started THEN
           /\ last' = Ret(Call("Create", u, 0, 0), "Error")
           /\ UNCHANGED <<bookings, nextBooking, nextOrder>>
       ELSE
           /\ bookings' = [bookings EXCEPT ![nextBooking] =
                  IF e = 1 THEN ExternalBooking(nextBooking, u, ProviderOrder(nextOrder))
                  ELSE NewBooking(nextBooking, e, u)]
           /\ nextBooking' = nextBooking + 1
           /\ nextOrder' = IF e = 1 THEN nextOrder + 1 ELSE nextOrder
           /\ last' = Ret(Call("Create", u, nextBooking, 0), "OK")
    /\ UNCHANGED <<seats, links, remote, nextPayment, bus, tasks, ops>>
    /\ UNCHANGED edgeVars

\* ------------------------------------------------------- SeatService.Select
SelectBegin(t, u, b, s) ==
    /\ CanStart(t)
    /\ LET bk == GetByID(b)
           r == [Call("Select", u, b, s) EXCEPT !.owner = bk.user_id]
       IN IF bk.id = 0 THEN Finish(t, Call("Select", u, b, s), "NotFound")
          ELSE IF bk.event_id = 1 THEN Continue(t, [r EXCEPT !.pc = "sel_ext"])
          ELSE IF SeatEvent(s) # bk.event_id THEN Finish(t, r, "WrongEvent")
          ELSE Continue(t, [r EXCEPT !.pc = "sel_reserve"])
    /\ ops' = ops + 1
    /\ UNCHANGED <<dbVars, extVars, bus>>
    /\ UNCHANGED edgeVars

SelectReserve(t) ==
    /\ tasks[t].pc = "sel_reserve"
    /\ LET r == tasks[t]
           res == ReserveSeatResult(r.sid, r.bid)
       IN /\ seats' = IF res = "OK" THEN ReservedSeats(r.sid) ELSE seats
          /\ links' = IF res = "OK" THEN ReservedLinks(r.sid, r.bid) ELSE links
          /\ Finish(t, r, res)
    /\ UNCHANGED <<bookings, nextBooking, extVars, bus, ops>>
    /\ UNCHANGED edgeVars

SelectPlaceOk(p) == p \in DOMAIN remote /\ remote[p] = NoOrder

SelectExternal(t) ==
    /\ tasks[t].pc = "sel_ext"
    /\ LET r == tasks[t]
           bk == GetByID(r.bid)
       IN IF bk.id = 0 THEN
              Finish(t, r, "NotFound") /\ UNCHANGED remote
          ELSE IF bk.order_id = NoOrder \/ ~SelectPlaceOk(r.sid) THEN
              Finish(t, r, "Error") /\ UNCHANGED remote
          ELSE
              /\ remote' = [remote EXCEPT ![r.sid] = bk.order_id]
              /\ Finish(t, r, "OK")
    /\ UNCHANGED <<dbVars, nextOrder, nextPayment, bus, ops>>
    /\ UNCHANGED edgeVars

\* the HTTP status of PATCH /api/seats/select for a service result: the
\* service's errors are untyped but for ErrUnauthorized and ErrForbidden
handleServiceError(res) ==
    IF res = "Unauthorized" THEN 401
    ELSE IF res = "Forbidden" THEN 403
    ELSE IF res = "ErrSeatIsNotAvailable" THEN 419
    ELSE 500

SelectSeat(res) == IF res = "OK" THEN 200 ELSE handleServiceError(res)

\* the earlier handler answers 419 to every error
SelectSeatLegacy(res) == IF res = "OK" THEN 200 ELSE 419

\* ------------------------------------------------------ SeatService.Release
ReleaseSeat(t, u, s) ==
    /\ CanStart(t)
    /\ LET bk == GetBookingBySeatID(s)
           r == [Call("Release", u, 0, s) EXCEPT !.owner = IF bk.id = 0 THEN 0 ELSE bk.user_id]
       IN IF SeatEvent(s) = 1 THEN
              /\ IF bk.id = 0 \/ bk.order_id = NoOrder THEN
                     Finish(t, r, "Error") /\ UNCHANGED remote
                 ELSE
                     /\ remote' = [remote EXCEPT ![s] = NoOrder]
                     /\ Finish(t, r, "OK")
              /\ UNCHANGED <<seats, links>>
          ELSE
              /\ seats' = ReleasedSeats(s)
              /\ links' = ReleasedLinks(s)
              /\ Finish(t, r, "OK")
              /\ UNCHANGED remote
    /\ ops' = ops + 1
    /\ UNCHANGED <<bookings, nextBooking, nextOrder, nextPayment, bus>>
    /\ UNCHANGED edgeVars

\* -------------------------------------------- BookingService.InitiatePayment
Msg(subject, b, pay, order) ==
    [subject |-> subject, booking_id |-> b, payment_id |-> pay, order_id |-> order]

\* a seat without a price adds nothing to the total
PriceOrZero(p) == IF p = <<>> THEN 0 ELSE p[1]

SumPrices(ss) == LET RECURSIVE Sum(_)
                     Sum(q) == IF q = <<>> THEN 0
                               ELSE PriceOrZero(SeatPrice(Head(q))) + Sum(Tail(q))
                 IN Sum(ss)

InitiatePaymentBegin(t, u, b) ==
    /\ CanStart(t)
    /\ LET bk == GetByID(b)
           r == Call("InitiatePayment", u, b, 0)
       IN IF bk.id = 0 THEN Finish(t, r, "NotFound")
          ELSE Continue(t, [r EXCEPT !.pc = "ip_seats", !.owner = bk.user_id, !.snap = bk])
    /\ ops' = ops + 1
    /\ UNCHANGED <<dbVars, extVars, bus>>
    /\ UNCHANGED edgeVars

InitiatePaymentSeats(t) ==
    /\ tasks[t].pc = "ip_seats"
    /\ LET r == tasks[t]
           ss == GetSeats(r.snap.id)
       IN IF ss = <<>> THEN Finish(t, r, "Error")
          ELSE Continue(t, [r EXCEPT !.pc = "ip_pay", !.todo = ss])
    /\ UNCHANGED <<dbVars, extVars, bus, ops>>
    /\ UNCHANGED edgeVars

InitiatedRow(snap, total, n) ==
    [snap EXCEPT !.payment_status = "INITIATED", !.payment_id = n,
                 !.order_id = UuidOrder(n), !.total_amount = FormatInt(total)]

NoPaymentRow(snap, total) ==
    [snap EXCEPT !.payment_status = "COMPLETED", !.status = "CONFIRMED",
                 !.total_amount = FormatInt(total)]

InitiatePaymentUpdate(t) ==
    /\ tasks[t].pc = "ip_pay"
    /\ LET r == tasks[t]
           total == SumPrices(r.todo)
       IN IF r.snap.event_id # 1 THEN
              /\ bookings' = UpdateRow(InitiatedRow(r.snap, total, nextPayment))
              /\ nextPayment' = nextPayment + 1
              /\ bus' = bus \cup {Msg("payment.initiated", r.snap.id, nextPayment, NoOrder)}
              /\ Finish(t, [r EXCEPT !.url = PaymentURL(nextPayment)], "OK")
          ELSE
              /\ bookings' = UpdateRow(NoPaymentRow(r.snap, total))
              /\ UNCHANGED <<nextPayment, bus>>
              /\ Finish(t, r, "OK")
    /\ UNCHANGED <<seats, links, nextBooking, remote, nextOrder, ops>>
    /\ UNCHANGED edgeVars

\* a refusal reported after the payment fields were stored
InitiatePaymentStoredThenRefused(t) ==
    /\ tasks[t].pc = "ip_pay"
    /\ tasks[t].snap.event_id # 1
    /\ bookings' = UpdateRow(InitiatedRow(tasks[t].snap, SumPrices(tasks[t].todo), nextPayment))
    /\ Finish(t, tasks[t], "Error")
    /\ UNCHANGED <<seats, links, nextBooking, extVars, bus, ops>>
    /\ UNCHANGED edgeVars

\* PaymentClient.InitPayment returns an error: nothing is written
InitiatePaymentRefused(t) ==
    /\ tasks[t].pc = "ip_pay"
    /\ tasks[t].snap.event_id # 1
    /\ Finish(t, tasks[t], "Error")
    /\ UNCHANGED <<dbVars, extVars, bus, ops>>
    /\ UNCHANGED edgeVars

\* ---------------------------------------------------- BookingService.Cancel
CancelledRow(snap) == [snap EXCEPT !.status = "CANCELLED", !.payment_status = "CANCELLED"]

CancelBegin(t, u, b) ==
    /\ CanStart(t)
    /\ LET bk == GetByID(b)
           r == Call("Cancel", u, b, 0)
       IN IF bk.id = 0 THEN Finish(t, r, "NotFound")
          ELSE Continue(t, [r EXCEPT !.pc = "cx_seats", !.owner = bk.user_id, !.snap = bk])
    /\ ops' = ops + 1
    /\ UNCHANGED <<dbVars, extVars, bus>>
    /\ UNCHANGED edgeVars

CancelSeats(t) ==
    /\ tasks[t].pc = "cx_seats"
    /\ Continue(t, [tasks[t] EXCEPT !.pc = "cx_loop", !.todo = GetSeats(tasks[t].snap.id)])
    /\ UNCHANGED <<dbVars, extVars, bus, ops>>
    /\ UNCHANGED edgeVars

CancelRelease(t) ==
    /\ tasks[t].pc = "cx_loop"
    /\ tasks[t].todo # <<>>
    /\ seats' = ReleasedSeats(Head(tasks[t].todo))
    /\ links' = ReleasedLinks(Head(tasks[t].todo))
    /\ Continue(t, [tasks[t] EXCEPT !.todo = Tail(@)])
    /\ UNCHANGED <<bookings, nextBooking, extVars, bus, ops>>
    /\ UNCHANGED edgeVars

CancelUpdate(t) ==
    /\ tasks[t].pc = "cx_loop"
    /\ tasks[t].todo = <<>>
    /\ bookings' = UpdateRow(CancelledRow(tasks[t].snap))
    /\ Finish(t, tasks[t], "OK")
    /\ UNCHANGED <<seats, links, nextBooking, extVars, bus, ops>>
    /\ UNCHANGED edgeVars

\* ------------------------------------------------------------ bus producers
\* HandlePaymentNotification: the event carries the payment id only
NotificationSubject(status) ==
    IF status \in {"completed", "CONFIRMED"} THEN "payment.completed"
    ELSE IF status \in {"failed", "REJECTED", "CANCELLED"} THEN "payment.failed"
    ELSE "none"

NotificationEvent(pay, status) == Msg(NotificationSubject(status), 0, pay, NoOrder)

Pending == {m \in bus : m.subject \in {"payment.completed", "payment.failed"}}

\* GET /api/payments/fail?orderId=...: the handler answers 400 to an empty
\* order id and otherwise logs the failure and answers 200
NotifyPaymentFailed(orderID) ==
    /\ ops < MaxOps
    /\ ops' = ops + 1
    /\ last' = Ret([Call("NotifyPaymentFailed", 0, 0, 0)
                       EXCEPT !.msg = Msg("payments.fail", 0, NoPayment, orderID)],
                  IF orderID = NoOrder THEN "BadRequest" ELSE "OK")
    /\ UNCHANGED <<dbVars, extVars, bus, tasks>>
    /\ UNCHANGED edgeVars

PaymentNotification(pay, status) ==
    /\ Cardinality(Pending) < MaxPending
    /\ pay \in 1..(nextPayment - 1)
    /\ NotificationSubject(status) # "none"
    /\ bus' = bus \cup {NotificationEvent(pay, status)}
    /\ UNCHANGED <<dbVars, extVars, tasks, last, ops>>
    /\ UNCHANGED edgeVars

\* a payment event whose booking_id is filled in, as the consumers read it
PublishPaymentEvent(subject, b) ==
    /\ Cardinality(Pending) < MaxPending
    /\ GetByID(b).id # 0
    /\ bus' = bus \cup {Msg(subject, b, bookings[b].payment_id, bookings[b].order_id)}
    /\ UNCHANGED <<dbVars, extVars, tasks, last, ops>>
    /\ UNCHANGED edgeVars

\* ------------------------------------------------- consumers: payment.initiated
Deliver(t, m, op, pc) ==
    /\ CanStart(t)
    /\ m \in bus
    /\ LET bk == GetByID(m.booking_id)
           r == [Call(op, 0, m.booking_id, 0) EXCEPT !.msg = m]
       IN IF bk.id = 0 THEN
              /\ bus' = bus \ {m}
              /\ Finish(t, r, "Ack")
          ELSE
              /\ UNCHANGED bus
              /\ Continue(t, [r EXCEPT !.pc = pc, !.snap = bk])
    /\ ops' = ops + 1
    /\ UNCHANGED <<dbVars, extVars>>
    /\ UNCHANGED edgeVars

PaymentInitiatedRow(snap) == [snap EXCEPT !.payment_status = "INITIATED"]

HandlePaymentInitiatedBegin(t, m) ==
    /\ m.subject = "payment.initiated"
    /\ Deliver(t, m, "HandlePaymentInitiated", "hpi_update")

HandlePaymentInitiatedUpdate(t) ==
    /\ tasks[t].pc = "hpi_update"
    /\ bookings' = UpdateRow(PaymentInitiatedRow(tasks[t].snap))
    /\ bus' = bus \ {tasks[t].msg}
    /\ Finish(t, tasks[t], "Ack")
    /\ UNCHANGED <<seats, links, nextBooking, extVars, ops>>
    /\ UNCHANGED edgeVars

\* ------------------------------------------------- consumers: payment.completed
PaymentCompletedRow(snap) == [snap EXCEPT !.status = "CONFIRMED", !.payment_status = "COMPLETED"]

HandlePaymentCompletedBegin(t, m) ==
    /\ m.subject = "payment.completed"
    /\ Deliver(t, m, "HandlePaymentCompleted", "hpc_update")

HandlePaymentCompletedUpdate(t) ==
    /\ tasks[t].pc = "hpc_update"
    /\ bookings' = UpdateRow(PaymentCompletedRow(tasks[t].snap))
    /\ Continue(t, [tasks[t] EXCEPT !.pc = "hpc_seats"])
    /\ UNCHANGED <<seats, links, nextBooking, extVars, bus, ops>>
    /\ UNCHANGED edgeVars

HandlePaymentCompletedSeats(t) ==
    /\ tasks[t].pc = "hpc_seats"
    /\ Continue(t, [tasks[t] EXCEPT !.pc = "hpc_loop", !.todo = GetSeats(tasks[t].snap.id)])
    /\ UNCHANGED <<dbVars, extVars, bus, ops>>
    /\ UNCHANGED edgeVars

HandlePaymentCompletedSold(t) ==
    /\ tasks[t].pc = "hpc_loop"
    /\ tasks[t].todo # <<>>
    /\ seats' = UpdateStatus(Head(tasks[t].todo), "SOLD")
    /\ Continue(t, [tasks[t] EXCEPT !.todo = Tail(@)])
    /\ UNCHANGED <<bookings, links, nextBooking, extVars, bus, ops>>
    /\ UNCHANGED edgeVars

HandlePaymentCompletedAck(t) ==
    /\ tasks[t].pc = "hpc_loop"
    /\ tasks[t].todo = <<>>
    /\ bus' = bus \ {tasks[t].msg}
    /\ Finish(t, tasks[t], "Ack")
    /\ UNCHANGED <<dbVars, extVars, ops>>
    /\ UNCHANGED edgeVars

\* ---------------------------------------------------- consumers: payment.failed
\* the consumer writing the payment status alone
PaymentStatusOnlyRow(snap) == [snap EXCEPT !.payment_status = "FAILED"]

PaymentFailedRow(snap) == [snap EXCEPT !.status = "CANCELLED", !.payment_status = "FAILED"]

\* a cancellation that frees nothing
CancelNothing(order) == remote

\* TicketingClient.CancelOrder frees the places the order holds
CancelOrder(order) == [p \in DOMAIN remote |-> IF remote[p] = order THEN NoOrder ELSE remote[p]]

HandlePaymentFailedBegin(t, m) ==
    /\ m.subject = "payment.failed"
    /\ Deliver(t, m, "HandlePaymentFailed", "hpf_update")

HandlePaymentFailedUpdate(t) ==
    /\ tasks[t].pc = "hpf_update"
    /\ bookings' = UpdateRow(PaymentFailedRow(tasks[t].snap))
    /\ Continue(t, [tasks[t] EXCEPT !.pc = "hpf_seats"])
    /\ UNCHANGED <<seats, links, nextBooking, extVars, bus, ops>>
    /\ UNCHANGED edgeVars

HandlePaymentFailedSeats(t) ==
    /\ tasks[t].pc = "hpf_seats"
    /\ Continue(t, [tasks[t] EXCEPT !.pc = "hpf_loop", !.todo = GetSeats(tasks[t].snap.id)])
    /\ UNCHANGED <<dbVars, extVars, bus, ops>>
    /\ UNCHANGED edgeVars

HandlePaymentFailedRelease(t) ==
    /\ tasks[t].pc = "hpf_loop"
    /\ tasks[t].todo # <<>>
    /\ seats' = ReleasedSeats(Head(tasks[t].todo))
    /\ links' = ReleasedLinks(Head(tasks[t].todo))
    /\ Continue(t, [tasks[t] EXCEPT !.todo = Tail(@)])
    /\ UNCHANGED <<bookings, nextBooking, extVars, bus, ops>>
    /\ UNCHANGED edgeVars

HandlePaymentFailedAck(t) ==
    /\ tasks[t].pc = "hpf_loop"
    /\ tasks[t].todo = <<>>
    /\ remote' = IF tasks[t].snap.event_id = 1 THEN CancelOrder(tasks[t].msg.order_id) ELSE remote
    /\ bus' = bus \ {tasks[t].msg}
    /\ Finish(t, tasks[t], "Ack")
    /\ UNCHANGED <<dbVars, nextOrder, nextPayment, ops>>
    /\ UNCHANGED edgeVars

\* ------------------------------------------------ consumers: failing writes
\* SeatRepository.UpdateStatus returns an error: the handler logs the seat
\* (kept in sid) and goes on with the next seat
HandlePaymentCompletedSoldFails(t) ==
    /\ tasks[t].pc = "hpc_loop"
    /\ tasks[t].todo # <<>>
    /\ Continue(t, [tasks[t] EXCEPT !.sid = Head(tasks[t].todo), !.todo = Tail(@)])
    /\ UNCHANGED <<dbVars, extVars, bus, ops>>
    /\ UNCHANGED edgeVars

\* SeatRepository.ReleaseSeat returns an error: logged, the loop goes on
HandlePaymentFailedReleaseFails(t) ==
    /\ tasks[t].pc = "hpf_loop"
    /\ tasks[t].todo # <<>>
    /\ Continue(t, [tasks[t] EXCEPT !.sid = Head(tasks[t].todo), !.todo = Tail(@)])
    /\ UNCHANGED <<dbVars, extVars, bus, ops>>
    /\ UNCHANGED edgeVars

\* BookingRepository.Update returns an error: the handler returns before
\* m.Ack() and the message stays with the server
HandlePaymentUpdateFails(t) ==
    /\ tasks[t].pc \in {"hpc_update", "hpf_update"}
    /\ Finish(t, tasks[t], "Error")
    /\ UNCHANGED <<dbVars, extVars, bus, ops>>
    /\ UNCHANGED edgeVars

\* ---------------------------------------- the later service generation
\* BookingService of src/unnamed/part_002, SeatService kept in
\* src/load-data.sh and ExternalSyncHandler of src/unnamed/part_023: bookings
\* of every event are inserted CREATED / PENDING, every seat is reserved
\* locally, every event is paid, and the order at the provider is placed
\* once the payment has completed.
CreateLater(u, e) ==
    /\ nextBooking <= MaxBookings
    /\ bookings' = [bookings EXCEPT ![nextBooking] = NewBooking(nextBooking, e, u)]
    /\ nextBooking' = nextBooking + 1
    /\ last' = Ret(Call("Create", u, nextBooking, 0), "OK")
    /\ UNCHANGED <<seats, links, extVars, bus, tasks, ops>>
    /\ UNCHANGED edgeVars

SelectLocalBegin(t, u, b, s) ==
    /\ CanStart(t)
    /\ LET bk == GetByID(b)
           r == [Call("Select", u, b, s) EXCEPT !.owner = bk.user_id]
       IN IF bk.id = 0 THEN Finish(t, Call("Select", u, b, s), "NotFound")
          ELSE IF bk.user_id # u THEN Finish(t, r, "NotOwner")
          ELSE IF SeatEvent(s) # bk.event_id THEN Finish(t, r, "WrongEvent")
          ELSE Continue(t, [r EXCEPT !.pc = "sel_reserve"])
    /\ ops' = ops + 1
    /\ UNCHANGED <<dbVars, extVars, bus>>
    /\ UNCHANGED edgeVars

InitiatePaymentLaterBegin(t, u, b) ==
    /\ CanStart(t)
    /\ LET bk == GetByID(b)
           r == Call("InitiatePayment", u, b, 0)
       IN IF bk.id = 0 THEN Finish(t, r, "NotFound")
          ELSE IF bk.user_id # u THEN Finish(t, [r EXCEPT !.owner = bk.user_id], "Forbidden")
          ELSE Continue(t, [r EXCEPT !.pc = "ip_seats", !.owner = bk.user_id, !.snap = bk])
    /\ ops' = ops + 1
    /\ UNCHANGED <<dbVars, extVars, bus>>
    /\ UNCHANGED edgeVars

\* InitPayment for every event; paid: whether the gateway accepts
InitiatePaymentLaterUpdate(t, paid) ==
    /\ tasks[t].pc = "ip_pay"
    /\ LET r == tasks[t]
       IN IF paid THEN
              /\ bookings' = UpdateRow(InitiatedRow(r.snap, SumPrices(r.todo), nextPayment))
              /\ nextPayment' = nextPayment + 1
              /\ Finish(t, [r EXCEPT !.url = PaymentURL(nextPayment)], "OK")
          ELSE
              /\ UNCHANGED <<bookings, nextPayment>>
              /\ Finish(t, r, "Error")
    /\ UNCHANGED <<seats, links, nextBooking, remote, nextOrder, bus, ops>>
    /\ UNCHANGED edgeVars

GetByPaymentID(pay) ==
    LET found == {b \in BookingIds : bookings[b].id # 0 /\ bookings[b].payment_id = pay}
    IN IF pay = NoPayment \/ found = {} THEN NoBooking
       ELSE bookings[CHOOSE b \in found : \A c \in found : b <= c]

\* ExternalSyncHandler.HandlePaymentCompleted
ExternalSyncBegin(t, m) ==
    /\ CanStart(t)
    /\ m \in bus
    /\ m.subject = "payment.completed"
    /\ LET bk == GetByPaymentID(m.payment_id)
           r == [Call("ExternalSync", 0, bk.id, 0) EXCEPT !.msg = m]
       IN IF bk.id = 0 \/ bk.event_id # 1 THEN
              /\ bus' = bus \ {m}
              /\ Finish(t, r, "Ack")
          ELSE
              /\ UNCHANGED bus
              /\ Continue(t, [r EXCEPT !.pc = "sync_start", !.snap = bk])
    /\ ops' = ops + 1
    /\ UNCHANGED <<dbVars, extVars>>
    /\ UNCHANGED edgeVars

\* syncToExternalService, step 1; a failure returns without an ack
SyncStartOrder(t, started) ==
    /\ tasks[t].pc = "sync_start"
    /\ IF started THEN
           /\ nextOrder' = nextOrder + 1
           /\ Continue(t, [tasks[t] EXCEPT !.pc = "sync_seats", !.order = ProviderOrder(nextOrder)])
       ELSE
           /\ UNCHANGED nextOrder
           /\ Finish(t, tasks[t], "Retry")
    /\ UNCHANGED <<dbVars, remote, nextPayment, bus, ops>>
    /\ UNCHANGED edgeVars

\* step 2
SyncSeats(t) ==
    /\ tasks[t].pc = "sync_seats"
    /\ LET ss == GetSeats(tasks[t].snap.id)
       IN IF ss = <<>> THEN Finish(t, tasks[t], "Retry")
          ELSE Continue(t, [tasks[t] EXCEPT !.pc = "sync_loop", !.todo = ss])
    /\ UNCHANGED <<dbVars, extVars, bus, ops>>
    /\ UNCHANGED edgeVars

\* step 3, one place
SyncSelectPlace(t) ==
    /\ tasks[t].pc = "sync_loop"
    /\ tasks[t].todo # <<>>
    /\ LET r == tasks[t]
           p == Head(r.todo)
       IN IF SelectPlaceOk(p) THEN
              /\ remote' = [remote EXCEPT ![p] = r.order]
              /\ Continue(t, [r EXCEPT !.todo = Tail(@)])
          ELSE
              /\ remote' = CancelOrder(r.order)
              /\ Finish(t, r, "RetryCancelled")
    /\ UNCHANGED <<dbVars, nextOrder, nextPayment, bus, ops>>
    /\ UNCHANGED edgeVars

\* step 4 or 5: SubmitOrder or ConfirmOrder returns an error; the order is
\* cancelled and the error returned, without an ack
SyncSubmitFails(t) ==
    /\ tasks[t].pc = "sync_loop"
    /\ tasks[t].todo = <<>>
    /\ remote' = CancelOrder(tasks[t].order)
    /\ Finish(t, tasks[t], "RetryCancelled")
    /\ UNCHANGED <<dbVars, nextOrder, nextPayment, bus, ops>>
    /\ UNCHANGED edgeVars

\* steps 4 to 6: submit, confirm, write the order id into the booking row
SyncedRow(snap, order) == [snap EXCEPT !.order_id = order]

SyncUpdate(t) ==
    /\ tasks[t].pc = "sync_loop"
    /\ tasks[t].todo = <<>>
    /\ bookings' = UpdateRow(SyncedRow(tasks[t].snap, tasks[t].order))
    /\ bus' = bus \ {tasks[t].msg}
    /\ Finish(t, tasks[t], "Ack")
    /\ UNCHANGED <<seats, links, nextBooking, extVars, ops>>
    /\ UNCHANGED edgeVars

\* ------------------------------------------------------ BookingExpirationJob
\* created_at falls behind now - BookingExpirationTimeout
Age(b) ==
    /\ GetByID(b).id # 0
    /\ ~bookings[b].old
    /\ bookings' = [bookings EXCEPT ![b].old = TRUE]
    /\ UNCHANGED <<seats, links, nextBooking, extVars, bus, tasks, last, ops>>
    /\ UNCHANGED edgeVars

IsExpired(bk) ==
    bk.id # 0 /\ bk.status = "CREATED" /\ bk.payment_status = "PENDING" /\ bk.old

RowsOf(ids) == [i \in 1..Len(ids) |-> bookings[ids[i]]]

GetExpiredBookings == RowsOf(SortedSeq({b \in BookingIds : IsExpired(bookings[b])}))

CheckExpiredBookings(t) ==
    /\ CanStart(t)
    /\ LET r == Call("Expire", 0, 0, 0)
           rows == GetExpiredBookings
       IN IF rows = <<>> THEN Finish(t, r, "OK")
          ELSE Continue(t, [r EXCEPT !.pc = "exp_seats", !.batch = rows])
    /\ ops' = ops + 1
    /\ UNCHANGED <<dbVars, extVars, bus>>
    /\ UNCHANGED edgeVars

ExpireSeats(t) ==
    /\ tasks[t].pc = "exp_seats"
    /\ Continue(t, [tasks[t] EXCEPT !.pc = "exp_loop", !.bid = Head(tasks[t].batch).id,
                                    !.sid = 0, !.todo = GetSeats(Head(tasks[t].batch).id)])
    /\ UNCHANGED <<dbVars, extVars, bus, ops>>
    /\ UNCHANGED edgeVars

ExpireRelease(t) ==
    /\ tasks[t].pc = "exp_loop"
    /\ tasks[t].todo # <<>>
    /\ seats' = ReleasedSeats(Head(tasks[t].todo))
    /\ links' = ReleasedLinks(Head(tasks[t].todo))
    /\ Continue(t, [tasks[t] EXCEPT !.todo = Tail(@)])
    /\ UNCHANGED <<bookings, nextBooking, extVars, bus, ops>>
    /\ UNCHANGED edgeVars

ExpireUpdate(t) ==
    /\ tasks[t].pc = "exp_loop"
    /\ tasks[t].todo = <<>>
    /\ LET r == tasks[t]
           row == Head(r.batch)
       IN /\ bookings' = UpdateRow(CancelledRow(row))
          /\ bus' = bus \cup {Msg("booking.expired", row.id, NoPayment, NoOrder)}
          /\ IF Tail(r.batch) = <<>> THEN Finish(t, r, "OK")
             ELSE Continue(t, [r EXCEPT !.pc = "exp_seats", !.batch = Tail(@)])
    /\ UNCHANGED <<seats, links, nextBooking, extVars, ops>>
    /\ UNCHANGED edgeVars

\* SeatRepository.ReleaseSeat returns an error: expireBooking logs the seat
\* (kept in sid) and goes on with the other seats
ExpireReleaseFails(t) ==
    /\ tasks[t].pc = "exp_loop"
    /\ tasks[t].todo # <<>>
    /\ Continue(t, [tasks[t] EXCEPT !.sid = Head(tasks[t].todo), !.todo = Tail(@)])
    /\ UNCHANGED <<dbVars, extVars, bus, ops>>
    /\ UNCHANGED edgeVars

\* BookingRepository.Update returns an error: expireBooking returns it, the
\* sweep logs it and goes on with the next booking
ExpireUpdateFails(t) ==
    /\ tasks[t].pc = "exp_loop"
    /\ tasks[t].todo = <<>>
    /\ LET r == tasks[t]
       IN IF Tail(r.batch) = <<>> THEN Finish(t, r, "OK")
          ELSE Continue(t, [r EXCEPT !.pc = "exp_seats", !.batch = Tail(@)])
    /\ UNCHANGED <<dbVars, extVars, bus, ops>>
    /\ UNCHANGED edgeVars

\* ------------------------------------------------ ResetService.ResetDatabase
DeleteAll == [b \in BookingIds |-> NoBooking]

ResetAllSeats == [s \in Seats |-> "FREE"]

ResetBegin(t) ==
    /\ CanStart(t)
    /\ bookings' = DeleteAll
    /\ links' = {}
    /\ Continue(t, [Call("Reset", 0, 0, 0) EXCEPT !.pc = "reset_seats"])
    /\ ops' = ops + 1
    /\ UNCHANGED <<seats, nextBooking, extVars, bus>>
    /\ UNCHANGED edgeVars

ResetSeats(t) ==
    /\ tasks[t].pc = "reset_seats"
    /\ seats' = ResetAllSeats
    /\ Finish(t, tasks[t], "OK")
    /\ UNCHANGED <<bookings, links, nextBooking, extVars, bus, ops>>
    /\ UNCHANGED edgeVars

\* ------------------------------------------------------------------- Next
PaymentSubjects == {"payment.completed", "payment.failed"}
ProviderStatuses == {"CONFIRMED", "REJECTED"}
CreateCalls(US) ==
    \E u \in US, e \in EventIds, started \in BOOLEAN :
        (e = 1 \/ started) /\ CreateBooking(u, e, started)

SelectCalls(US) ==
    \/ \E t \in Tasks, u \in US, b \in BookingIds, s \in Seats : SelectBegin(t, u, b, s)
    \/ \E t \in Tasks : SelectReserve(t)
    \/ \E t \in Tasks : SelectExternal(t)

ReleaseCalls(US) ==
    \E t \in Tasks, u \in US, s \in Seats : ReleaseSeat(t, u, s)

InitiatePaymentCalls(US) ==
    \/ \E t \in Tasks, u \in US, b \in BookingIds : InitiatePaymentBegin(t, u, b)
    \/ \E t \in Tasks : InitiatePaymentSeats(t)
    \/ \E t \in Tasks : InitiatePaymentUpdate(t)
    \/ \E t \in Tasks : InitiatePaymentRefused(t)

CancelCalls(US) ==
    \/ \E t \in Tasks, u \in US, b \in BookingIds : CancelBegin(t, u, b)
    \/ \E t \in Tasks : CancelSeats(t)
    \/ \E t \in Tasks : CancelRelease(t)
    \/ \E t \in Tasks : CancelUpdate(t)

Producers ==
    \/ \E pay \in 1..MaxOps, st \in ProviderStatuses : PaymentNotification(pay, st)
    \/ \E sub \in PaymentSubjects, b \in BookingIds : PublishPaymentEvent(sub, b)

PaymentConsumers ==
    \/ \E t \in Tasks, m \in bus : HandlePaymentCompletedBegin(t, m)
    \/ \E t \in Tasks : HandlePaymentCompletedUpdate(t)
    \/ \E t \in Tasks : HandlePaymentCompletedSeats(t)
    \/ \E t \in Tasks : HandlePaymentCompletedSold(t)
    \/ \E t \in Tasks : HandlePaymentCompletedAck(t)
    \/ \E t \in Tasks, m \in bus : HandlePaymentFailedBegin(t, m)
    \/ \E t \in Tasks : HandlePaymentFailedUpdate(t)
    \/ \E t \in Tasks : HandlePaymentFailedSeats(t)
    \/ \E t \in Tasks : HandlePaymentFailedRelease(t)
    \/ \E t \in Tasks : HandlePaymentFailedAck(t)

Consumers ==
    \/ \E t \in Tasks, m \in bus : HandlePaymentInitiatedBegin(t, m)
    \/ \E t \in Tasks : HandlePaymentInitiatedUpdate(t)
    \/ PaymentConsumers

ConsumerFaults ==
    \/ \E t \in Tasks : HandlePaymentCompletedSoldFails(t)
    \/ \E t \in Tasks : HandlePaymentFailedReleaseFails(t)
    \/ \E t \in Tasks : HandlePaymentUpdateFails(t)

Expirer ==
    \/ \E b \in BookingIds : Age(b)
    \/ \E t \in Tasks : CheckExpiredBookings(t)
    \/ \E t \in Tasks : ExpireSeats(t)
    \/ \E t \in Tasks : ExpireRelease(t)
    \/ \E t \in Tasks : ExpireUpdate(t)

ExpirerFaults ==
    \/ \E t \in Tasks : ExpireReleaseFails(t)
    \/ \E t \in Tasks : ExpireUpdateFails(t)

ResetAdmin ==
    \/ \E t \in Tasks : ResetBegin(t)
    \/ \E t \in Tasks : ResetSeats(t)

\* the whole program
Next ==
    \/ CreateCalls(Users) \/ SelectCalls(Users) \/ ReleaseCalls(Users)
    \/ InitiatePaymentCalls(Users) \/ CancelCalls(Users)
    \/ Producers \/ Consumers \/ Expirer \/ ResetAdmin

Spec == Init /\ [][Next]_vars

\* seat selection alone, any caller
NextSelect == CreateCalls(Users) \/ SelectCalls(Users)

SpecSelect == Init /\ [][NextSelect]_vars

\* seat reservation, release and cancellation, one user
NextSeat ==
    \/ CreateCalls({1}) \/ SelectCalls({1}) \/ ReleaseCalls({1}) \/ CancelCalls({1})

SpecSeat == Init /\ [][NextSeat]_vars

\* seat reservation and release against the administrative reset, one user
NextReset ==
    \/ CreateCalls({1}) \/ SelectCalls({1}) \/ ReleaseCalls({1}) \/ ResetAdmin

SpecReset == Init /\ [][NextReset]_vars

\* payment workflow, one user
NextPay ==
    \/ CreateCalls({1}) \/ SelectCalls({1})
    \/ InitiatePaymentCalls({1}) \/ CancelCalls({1})
    \/ Producers \/ Consumers \/ Expirer

SpecPay == Init /\ [][NextPay]_vars

\* expiration sweeps against seat selection, one user
NextExpire == CreateCalls({1}) \/ SelectCalls({1}) \/ Expirer

SpecExpire == Init /\ [][NextExpire]_vars

\* the later service generation with the external sync, one user
ExternalSync ==
    \/ \E t \in Tasks, m \in bus : ExternalSyncBegin(t, m)
    \/ \E t \in Tasks, started \in BOOLEAN : SyncStartOrder(t, started)
    \/ \E t \in Tasks : SyncSeats(t)
    \/ \E t \in Tasks : SyncSelectPlace(t)
    \/ \E t \in Tasks : SyncSubmitFails(t)
    \/ \E t \in Tasks : SyncUpdate(t)

NextSync ==
    \/ \E e \in EventIds : CreateLater(1, e)
    \/ \E t \in Tasks, b \in BookingIds, s \in Seats : SelectLocalBegin(t, 1, b, s)
    \/ \E t \in Tasks : SelectReserve(t)
    \/ \E t \in Tasks, b \in BookingIds : InitiatePaymentLaterBegin(t, 1, b)
    \/ \E t \in Tasks : InitiatePaymentSeats(t)
    \/ \E t \in Tasks, paid \in BOOLEAN : InitiatePaymentLaterUpdate(t, paid)
    \/ \E pay \in 1..MaxOps, st \in ProviderStatuses : PaymentNotification(pay, st)
    \/ ExternalSync

SpecSync == Init /\ [][NextSync]_vars

\* the events listing with its cache
NextEvents ==
    \/ \E t \in Tasks, f \in Filters, p \in Pages, s \in PageSizes : ListEventsBegin(t, f, p, s)
    \/ \E t \in Tasks, f \in Filters, p \in Pages, s \in PageSizes : ListEventsReadFails(t, f, p, s)
    \/ \E t \in Tasks : ListEventsFetch(t)
    \/ \E t \in Tasks, written \in BOOLEAN : ListEventsStore(t, written)
    \/ \E k \in CacheKeys : ExpireEntry(k)
    \/ CreateEvent

SpecEvents == Init /\ [][NextEvents]_vars

\* the payment pages' failure callback after an initiated payment
NextFail ==
    \/ CreateCalls({1}) \/ SelectCalls({1}) \/ InitiatePaymentCalls({1})
    \/ \E n \in 0..MaxBookings : NotifyPaymentFailed(IF n = 0 THEN NoOrder ELSE UuidOrder(n))

SpecFail == Init /\ [][NextFail]_vars

\* the authentication middleware in front of every API route
NextAuth ==
    \/ \E e \in Emails, p \in Passwords, ok, cacheUp, dbUp \in BOOLEAN :
          BasicAuth(e, p, ok, cacheUp, dbUp)
    \/ \E e \in Emails, h \in StoredHashes, active \in BOOLEAN : CreateUser(e, h, active)
    \/ \E e \in Emails : PopulateAuthCache(e)

SpecAuth == Init /\ [][NextAuth]_vars

\* the token of the payment gateway's requests
NextToken ==
    \E params \in TokenParams, slug \in {<<"t">>, <<"t", "2">>}, pw \in {<<"s">>, <<"2", "s">>} :
        \E iterated \in Iterations(DOMAIN params \cup {"TeamSlug", "Password"}) :
            TokenRequest(params, iterated, slug, pw)

SpecToken == Init /\ [][NextToken]_vars

\* a call that has returned leaves the count of calls: ops bounds the calls
\* in flight, and any number of calls may follow one another
Returned ==
    /\ ops > Cardinality({t \in Tasks : ~Free(t)})
    /\ ops' = ops - 1
    /\ UNCHANGED <<dbVars, extVars, bus, tasks, last>>
    /\ UNCHANGED edgeVars

\* cancellations against seat selection, one user, calls without end
NextRelease ==
    \/ CreateCalls({1}) \/ SelectCalls({1}) \/ CancelCalls({1})
    \/ Returned

SpecRelease == Init /\ [][NextRelease]_vars

\* the payment consumers with failing writes, one user
NextAck ==
    \/ CreateCalls({1}) \/ SelectCalls({1})
    \/ \E sub \in PaymentSubjects, b \in BookingIds : PublishPaymentEvent(sub, b)
    \/ PaymentConsumers \/ ConsumerFaults

SpecAck == Init /\ [][NextAck]_vars

\* payment.initiated against cancellation, one user; the calls that returned
\* before the first payment was initialised are not counted
NextInitiated ==
    \/ CreateCalls({1}) \/ SelectCalls({1})
    \/ InitiatePaymentCalls({1}) \/ CancelCalls({1})
    \/ \E t \in Tasks, m \in bus : HandlePaymentInitiatedBegin(t, m)
    \/ \E t \in Tasks : HandlePaymentInitiatedUpdate(t)
    \/ (nextPayment = 1 /\ Returned)

SpecInitiated == Init /\ [][NextInitiated]_vars

\* expiration sweeps with failing writes against seat selection, one user
NextSweep == CreateCalls({1}) \/ SelectCalls({1}) \/ Expirer \/ ExpirerFaults

SpecSweep == Init /\ [][NextSweep]_vars

\* a user who selects seats and starts a payment, the expiration job and the
\* payment.initiated consumer, calls without end; payments are initialised
\* one at a time, MaxPayments of them
NextFair ==
    \/ CreateCalls({1}) \/ SelectCalls({1})
    \/ \E t \in Tasks, b \in BookingIds :
          /\ nextPayment <= MaxPayments
          /\ \A t2 \in Tasks : tasks[t2].op # "InitiatePayment"
          /\ InitiatePaymentBegin(t, 1, b)
    \/ \E t \in Tasks : InitiatePaymentSeats(t)
    \/ \E t \in Tasks : InitiatePaymentUpdate(t)
    \/ \E t \in Tasks : InitiatePaymentRefused(t)
    \/ \E t \in Tasks, m \in bus : HandlePaymentInitiatedBegin(t, m)
    \/ \E t \in Tasks : HandlePaymentInitiatedUpdate(t)
    \/ Expirer
    \/ Returned

\* time passes; the ticker starts a sweep every 30 seconds whatever else runs,
\* the server redelivers what is not acknowledged; a goroutine that has
\* started runs to its end, and a call that has returned is counted out
Fairness ==
    /\ \A b \in BookingIds : WF_vars(Age(b))
    /\ SF_vars(\E t \in Tasks : CheckExpiredBookings(t))
    /\ SF_vars(\E t \in Tasks, m \in bus : HandlePaymentInitiatedBegin(t, m))
    /\ \A t \in Tasks :
          /\ WF_vars(ExpireSeats(t) \/ ExpireRelease(t) \/ ExpireUpdate(t))
          /\ WF_vars(HandlePaymentInitiatedUpdate(t))
          /\ WF_vars(SelectReserve(t) \/ SelectExternal(t))
          /\ WF_vars(InitiatePaymentSeats(t) \/ InitiatePaymentUpdate(t)
                        \/ InitiatePaymentRefused(t))
    /\ WF_vars(Returned)

SpecFair == Init /\ [][NextFair]_vars /\ Fairness

\* a user who selects and releases seats and starts a payment, against the
\* payment.completed consumer; the calls that returned before the first
\* payment was initialised are not counted
NextTotal ==
    \/ CreateCalls({1}) \/ SelectCalls({1}) \/ ReleaseCalls({1})
    \/ InitiatePaymentCalls({1})
    \/ \E b \in BookingIds : PublishPaymentEvent("payment.completed", b)
    \/ \E t \in Tasks, m \in bus : HandlePaymentCompletedBegin(t, m)
    \/ \E t \in Tasks : HandlePaymentCompletedUpdate(t)
    \/ \E t \in Tasks : HandlePaymentCompletedSeats(t)
    \/ \E t \in Tasks : HandlePaymentCompletedSold(t)
    \/ \E t \in Tasks : HandlePaymentCompletedAck(t)
    \/ (nextPayment = 1 /\ Returned)

SpecTotal == Init /\ [][NextTotal]_vars

\* the later generation with repeated deliveries; the calls that returned
\* before the first payment was initialised are not counted
NextResync == NextSync \/ (nextPayment = 1 /\ Returned)

SpecResync == Init /\ [][NextResync]_vars

\* ================================================================ properties
NonTerminal(b) == bookings[b].id # 0 /\ bookings[b].status \in {"CREATED", "CONFIRMED"}
Terminal(b) == bookings[b].id # 0 /\ bookings[b].status \in {"CANCELLED", "EXPIRED"}
LinkedTo(s) == {b \in BookingIds : <<b, s>> \in links}
Quiescent == \A t \in Tasks : Free(t)

\* C1: a SelectSeat call that returns success leaves the seat RESERVED with
\* exactly one BookingSeat link, to the winner's booking (under SpecSelect
\* nothing releases a seat, so the state after the call is the state now).
C1_WinnerHoldsSeat ==
    (last.op = "Select" /\ last.res = "OK") =>
        /\ seats[last.sid] = "RESERVED"
        /\ LinkedTo(last.sid) = {last.bid}

\* C2: each seat has BookingSeat links to at most one booking whose status
\* is CREATED or CONFIRMED.
C2_OneLiveBookingPerSeat ==
    \A s \in Seats : Cardinality({b \in LinkedTo(s) : NonTerminal(b)}) <= 1

\* C3: once every call has returned, a seat is FREE if and only if no
\* BookingSeat row links it to a CREATED or CONFIRMED booking.
C3_FreeIffUnlinked ==
    Quiescent =>
        \A s \in Seats : (seats[s] = "FREE") <=> ({b \in LinkedTo(s) : NonTerminal(b)} = {})

\* C4: once every call has returned, every seat linked to a CONFIRMED booking
\* is SOLD and every seat linked to a CANCELLED or EXPIRED booking is FREE.
C4_SeatsFollowBooking ==
    Quiescent =>
        \A s \in Seats : \A b \in LinkedTo(s) :
            /\ (bookings[b].id # 0 /\ bookings[b].status = "CONFIRMED") => seats[s] = "SOLD"
            /\ Terminal(b) => seats[s] = "FREE"

\* C9: a call made by a user other than the owner of the booking concerned
\* returns Forbidden.
C9_ForeignCallForbidden ==
    (last.op \in {"Select", "Release", "InitiatePayment", "Cancel"}
        /\ last.owner # 0 /\ last.user # last.owner) => last.res = "Forbidden"

\* C10: while a successful SelectSeat(b, s) stands (the seat's place is held
\* for b's order, or the seat is linked to b), a ReleaseSeat(s) by the owner
\* of b returns success.
HeldFor(s, b) ==
    \/ <<b, s>> \in links
    \/ s \in DOMAIN remote /\ bookings[b].order_id # NoOrder /\ remote[s] = bookings[b].order_id

C10_OwnerReleaseSucceeds ==
    [][\A s \in Seats, b \in BookingIds :
          (bookings[b].id # 0 /\ HeldFor(s, b) /\ last' # last /\ last'.op = "Release"
              /\ last'.sid = s /\ last'.user = bookings[b].user_id)
          => (last'.res = "OK" /\ seats'[s] = "FREE" /\ LinkedTo(s)' = {})]_vars

\* C5: in every booking row payment_status = COMPLETED implies status =
\* CONFIRMED, and payment_status in {FAILED, CANCELLED} implies status in
\* {CANCELLED, EXPIRED}, whatever the interleaving of the row updates.
C5_PaymentStatusConsistent ==
    \A b \in BookingIds : bookings[b].id # 0 =>
        /\ bookings[b].payment_status = "COMPLETED" => bookings[b].status = "CONFIRMED"
        /\ bookings[b].payment_status \in {"FAILED", "CANCELLED"}
               => bookings[b].status \in {"CANCELLED", "EXPIRED"}

\* a lost update: a payment.failed consumer that read the row while it was
\* still CREATED has written it back after a cancellation returned
C5_Witness ==
    \E b \in BookingIds, t \in Tasks :
        /\ last.op = "Cancel" /\ last.bid = b /\ last.res = "OK"
        /\ tasks[t].op = "HandlePaymentFailed" /\ tasks[t].pc = "hpf_seats"
        /\ tasks[t].snap.id = b /\ tasks[t].snap.status = "CREATED"
        /\ bookings[b].id # 0
        /\ bookings[b].status = "CANCELLED" /\ bookings[b].payment_status = "FAILED"

\* C6: once a payment.completed event published by PaymentNotification for a
\* booking's payment has been consumed and nothing else is running, the
\* booking is CONFIRMED / COMPLETED and every linked seat is SOLD.
C6_CompletedEventConfirms ==
    \A b \in BookingIds :
        (/\ Quiescent
         /\ last.op = "HandlePaymentCompleted" /\ last.res = "Ack"
         /\ last.msg = NotificationEvent(last.msg.payment_id, "CONFIRMED")
         /\ bookings[b].id # 0 /\ bookings[b].payment_id = last.msg.payment_id)
        => /\ bookings[b].status = "CONFIRMED"
           /\ bookings[b].payment_status = "COMPLETED"
           /\ \A s \in Seats : <<b, s>> \in links => seats[s] = "SOLD"

\* C7: once a payment.failed event published by PaymentNotification for a
\* booking's payment has been consumed and nothing else is running, the
\* booking is CANCELLED / FAILED and no seat is linked to it any more.
C7_FailedEventCancels ==
    \A b \in BookingIds :
        (/\ Quiescent
         /\ last.op = "HandlePaymentFailed" /\ last.res = "Ack"
         /\ last.msg = NotificationEvent(last.msg.payment_id, "REJECTED")
         /\ bookings[b].id # 0 /\ bookings[b].payment_id = last.msg.payment_id)
        => /\ bookings[b].status = "CANCELLED"
           /\ bookings[b].payment_status = "FAILED"
           /\ \A s \in Seats : <<b, s>> \notin links

\* C8: when the Expirer has expired a booking (its booking.expired event
\* appears), the booking is CANCELLED / CANCELLED and every seat linked to it
\* is FREE.
Expired(b) == Msg("booking.expired", b, NoPayment, NoOrder)

C8_ExpiryFreesSeats ==
    [][\A b \in BookingIds :
          (Expired(b) \notin bus /\ Expired(b) \in bus')
          => /\ bookings'[b].status = "CANCELLED"
             /\ bookings'[b].payment_status = "CANCELLED"
             /\ \A s \in Seats : <<b, s>> \in links' => seats'[s] = "FREE"]_vars

\* C11: a SelectSeat(b, s) whose seat belongs to another event than the
\* booking is answered with Conflict (HTTP 409, by either handler) and
\* leaves the seat statuses and the BookingSeat links as they were.
WrongEventCall(r) ==
    /\ r.op = "Select"
    /\ r.bid \in BookingIds /\ bookings[r.bid].id # 0
    /\ r.sid \in Seats /\ SeatEvent(r.sid) # bookings[r.bid].event_id

C11_WrongEventIsConflict ==
    [][(last' # last /\ WrongEventCall(last'))
          => /\ 409 \in {SelectSeat(last'.res), SelectSeatLegacy(last'.res)}
             /\ seats' = seats /\ links' = links]_vars

C13_CancelFreesSeats ==
    [][\A b \in BookingIds :
          (last' # last /\ last'.op = "Cancel" /\ last'.res = "OK" /\ last'.bid = b)
          => /\ bookings'[b].status = "CANCELLED"
             /\ bookings'[b].payment_status = "CANCELLED"
             /\ \A s \in Seats : <<b, s>> \in links
                    => (seats'[s] = "FREE" /\ <<b, s>> \notin links')]_vars

\* C14: for event 1, a SelectSeat(b, s) that returns success leaves the local
\* seat row RESERVED with a BookingSeat link to b, and a ReleaseSeat(s) that
\* returns success leaves the local seat row FREE.
C14_ExternalSelectIsLocal ==
    [][(last' # last /\ last'.res = "OK" /\ last'.sid \in Seats /\ SeatEvent(last'.sid) = 1)
          => /\ last'.op = "Select"
                   => (seats'[last'.sid] = "RESERVED" /\ <<last'.bid, last'.sid>> \in links')
             /\ last'.op = "Release" => seats'[last'.sid] = "FREE"]_vars

IssuedOrders == {ProviderOrder(n) : n \in 1..(nextOrder - 1)}

C16_ExternalOrderIssued ==
    \A b \in BookingIds :
        (NonTerminal(b) /\ bookings[b].event_id = 1) => bookings[b].order_id \in IssuedOrders

\* C17: a response served from the cache for (page, pageSize) equals the
\* response freshly computed for the same (page, pageSize) from the events
\* the store holds now.
FreshBody(a, n) == Marshal(List(n, "", "", a.page, a.size))

C17_CacheHitIsFresh ==
    [][(served' # served /\ served'.status = 200 /\ served'.hit)
          => served'.body = FreshBody(served', events')]_vars

\* C17 as it holds: a response served from the cache equals the response
\* freshly computed for the same (page, pageSize) from the events the store
\* held when the cached response was read, hence from the events it holds
\* now whenever none has been created since.
C17_CacheHitIsFreshWhenUnchanged ==
    [][(served' # served /\ served'.status = 200 /\ served'.hit)
          => /\ served'.seen \in InitialEvents..events'
             /\ served'.body = FreshBody(served', served'.seen)
             /\ served'.query = "" /\ served'.date = ""]_vars

C17_Witness ==
    /\ served.status = 200 /\ served.hit
    /\ served.page = 2 /\ served.seen = events /\ events > InitialEvents
    /\ \E t \in Tasks : reqs[t].pc = "store"

\* C18: the events-listing cache is read and written only for requests with
\* an empty query, an empty date and a page size that is a positive multiple
\* of 5; no other request creates or changes an entry.
Cacheable(r) == r.query = "" /\ r.date = "" /\ r.size > 0 /\ r.size % 5 = 0

C18_CacheOnlyWhenCacheable ==
    [][/\ (served' # served /\ served'.status = 200 /\ served'.hit) => Cacheable(served')
       /\ \A k \in CacheKeys :
             (cache'[k] # cache[k] /\ cache'[k] # NoEntry)
             => \E t \in Tasks :
                   /\ reqs[t].pc = "store" /\ reqs'[t].pc = "idle"
                   /\ Cacheable(reqs[t])
                   /\ k = generateEventsListCacheKey(reqs[t].page, reqs[t].size)]_vars

\* a request with a text query has been answered while the cache holds an
\* entry for its page and page size
C18_Witness ==
    /\ served.status = 200 /\ ~served.hit /\ served.query # ""
    /\ served.size % 5 = 0
    /\ cache[generateEventsListCacheKey(served.page, served.size)] # NoEntry
\* C19: after a payment-failure callback for the order of a booking whose
\* payment has been initiated, every seat selected for that booking is FREE.
C19_FailureFreesSeat ==
    [][(last' # last /\ last'.op = "NotifyPaymentFailed" /\ last'.res = "OK")
       => \A b \in BookingIds, s \in Seats :
             (/\ bookings[b].id # 0 /\ bookings[b].payment_status = "INITIATED"
              /\ bookings[b].order_id = last'.msg.order_id
              /\ <<b, s>> \in links)
             => seats'[s] = "FREE"]_vars
\* C20: a request passes BasicAuth only with the user id cached for exactly
\* the presented credential or the id of the active users row of that email
\* whose password_hash is the hash of the presented password; a request for
\* an absent or inactive user, or with a wrong password, gets 401 and the
\* protected handler does not run.
CachedFor(a) ==
    IF a.email \in Emails THEN authCache[authField(a.email, sha256hex(a.password))] ELSE 0

StoreAccepts(a) ==
    /\ a.email \in Emails
    /\ users[a.email] # NoUser
    /\ users[a.email].is_active
    /\ users[a.email].password_hash = sha256hex(a.password)

PassesOnlyIdentified(a) ==
    a.status # 401 =>
        /\ a.ran
        /\ \/ CachedFor(a) # 0 /\ a.user_id = CachedFor(a)
           \/ StoreAccepts(a) /\ a.user_id = users[a.email].user_id

C20_AuthGate ==
    [][auth' # auth =>
         /\ PassesOnlyIdentified(auth')
         /\ ~StoreAccepts(auth') => (auth'.status = 401 /\ ~auth'.ran)]_vars

\* C20 (amended): the same, where the rejection of an absent or inactive user
\* or of a wrong password is owed only when the cache holds no entry for the
\* presented credential.
C20_AuthGateUnlessCached ==
    [][auth' # auth =>
         /\ PassesOnlyIdentified(auth')
         /\ (~StoreAccepts(auth') /\ CachedFor(auth') = 0)
            => (auth'.status = 401 /\ ~auth'.ran)]_vars

\* an inactive user with the right password has been rejected while the cache
\* holds the entry of another credential
C20_Witness ==
    /\ auth.status = 401 /\ auth.email \in Emails
    /\ users[auth.email] # NoUser /\ ~users[auth.email].is_active
    /\ users[auth.email].password_hash = sha256hex(auth.password)
    /\ CachedFor(auth) = 0
    /\ \E f \in AuthFields : authCache[f] # 0
\* C21: the payment token is the lowercase hex SHA-256 of the values of the
\* parameters, TeamSlug and Password included, concatenated in ascending key
\* order, whatever the order in which the parameters come (for InitPayment:
\* Amount, Currency, OrderId, Password, TeamSlug).
ValueOf(m, k) ==
    IF k = "TeamSlug" THEN m.teamSlug
    ELSE IF k = "Password" THEN m.password
    ELSE IF k \in DOMAIN m.params THEN m.params[k] ELSE <<>>

C21_TokenIsSortedHash ==
    last.op = "generateToken" =>
        /\ last.msg.token =
              sha256hex(ValueOf(last.msg, "Amount") \o ValueOf(last.msg, "Currency")
                        \o ValueOf(last.msg, "OrderId") \o ValueOf(last.msg, "Password")
                        \o ValueOf(last.msg, "PaymentId") \o ValueOf(last.msg, "TeamSlug"))
        /\ \A it \in Iterations(DOMAIN last.msg.params \cup {"TeamSlug", "Password"}) :
              generateToken(last.msg.params, it, last.msg.teamSlug, last.msg.password)
                  = last.msg.token

\* an InitPayment token computed from keys that came in descending order
C21_Witness ==
    /\ last.op = "generateToken"
    /\ DOMAIN last.msg.params = {"Amount", "Currency", "OrderId"}
    /\ last.msg.iterated = <<"TeamSlug", "Password", "OrderId", "Currency", "Amount">>
    /\ last.msg.params.Amount = <<"1", "2", "0", "0">>
C23_CancelledIsAbsorbing ==
    [][\A b \in BookingIds :
          (bookings[b].id # 0 /\ bookings[b].status = "CANCELLED" /\ bookings'[b].id # 0)
          => bookings'[b].status \notin {"CREATED", "CONFIRMED"}]_vars
\* C24: a step that releases the seats of a booking b (in a cancellation, in
\* the processing of payment.failed or in an expiration sweep) removes no
\* BookingSeat link of another booking and frees no seat reserved for one.
ReleasingFor(t) == IF tasks[t].op = "Expire" THEN tasks[t].bid ELSE tasks[t].snap.id

C24_ReleaseSparesOthers ==
    [][\A t \in Tasks :
          (tasks[t].pc \in {"cx_loop", "exp_loop", "hpf_loop"} /\ tasks'[t] # tasks[t])
          => \A b2 \in BookingIds, s \in Seats :
                (b2 # ReleasingFor(t) /\ <<b2, s>> \in links)
                => /\ <<b2, s>> \in links'
                   /\ seats[s] = "RESERVED" => seats'[s] = "RESERVED"]_vars
\* C25: what a successful InitiatePayment has written into a booking row is
\* never replaced by what the row held before: its payment_id is not set
\* back to none or to an earlier payment, and order_id and total_amount stay
\* those of that payment as long as the payment_id does.
C25_NoLostUpdate ==
    [][\A b \in BookingIds :
          (bookings[b].id # 0 /\ bookings[b].payment_id # NoPayment /\ bookings'[b].id # 0)
          => /\ bookings'[b].payment_id >= bookings[b].payment_id
             /\ bookings'[b].payment_id = bookings[b].payment_id
                    => /\ bookings'[b].order_id = bookings[b].order_id
                       /\ bookings'[b].total_amount = bookings[b].total_amount]_vars

\* C26: a payment.completed or payment.failed message is acknowledged only
\* when no seat update of its handler failed
C26_AckOnlyAfterSuccess ==
    (last.op \in {"HandlePaymentCompleted", "HandlePaymentFailed"} /\ last.res = "Ack")
        => last.sid = 0

\* C27: a payment.initiated message handled when the booking's payment_status
\* is already COMPLETED, FAILED or CANCELLED leaves the booking's status and
\* payment_status as they are
C27_InitiatedAfterOutcome ==
    [][\A t \in Tasks :
          (tasks[t].pc = "hpi_update" /\ tasks'[t] = IdleTask) =>
              LET b == tasks[t].snap.id
              IN (bookings[b].id # 0
                  /\ bookings[b].payment_status \in {"COMPLETED", "FAILED", "CANCELLED"}) =>
                     /\ bookings'[b].status = bookings[b].status
                     /\ bookings'[b].payment_status = bookings[b].payment_status]_vars

\* C28: a payment.completed or payment.failed event published for the payment
\* of a booking carries the id and the order id of that booking
C28_EventCarriesBooking ==
    [][\A m \in bus' \ bus :
          (m.subject \in PaymentSubjects /\ GetByPaymentID(m.payment_id).id # 0) =>
              /\ m.booking_id = GetByPaymentID(m.payment_id).id
              /\ m.order_id = GetByPaymentID(m.payment_id).order_id]_vars

\* C29: a sweep in which the release of a seat of a booking failed leaves
\* the booking among those GetExpiredBookings selects
C29_FailedSweepIsRetried ==
    [][\A t \in Tasks :
          (tasks[t].op = "Expire" /\ tasks[t].pc = "exp_loop" /\ tasks[t].todo = <<>>
           /\ tasks[t].sid # 0 /\ tasks'[t] # tasks[t]) =>
              (IsExpired(bookings[tasks[t].bid]) => IsExpired(bookings'[tasks[t].bid]))]_vars

\* C30: a seat that is RESERVED is later FREE or SOLD
C30_NoSeatReservedForever ==
    \A s \in Seats : (seats[s] = "RESERVED") ~> (seats[s] # "RESERVED")

\* C31: while a reset is between its two statements no seat is seen in a
\* status other than FREE
C31_ResetIsOneUnit ==
    \A t \in Tasks : tasks[t].pc = "reset_seats" => \A s \in Seats : seats[s] = "FREE"

\* task t is at the step at which a payment of a regular event succeeds
PaymentSucceeds(t) ==
    /\ tasks[t].pc = "ip_pay"
    /\ tasks[t].snap.event_id # 1
    /\ tasks'[t] = IdleTask
    /\ last'.res = "OK"

\* what a successful payment leaves on booking b, but for status and total
PaymentStored(b) ==
    /\ bookings'[b].payment_status = "INITIATED"
    /\ bookings'[b].payment_id # NoPayment
    /\ bookings'[b].order_id # NoOrder
    /\ \A c \in BookingIds :
          bookings[c].id # 0 => /\ bookings[c].payment_id # bookings'[b].payment_id
                                /\ bookings[c].order_id # bookings'[b].order_id
    /\ last'.url = PaymentURL(bookings'[b].payment_id)
    /\ last'.url # NoURL

\* C32 as stated: a successful InitiatePayment of a regular event stores
\* INITIATED, a fresh payment id and order id and the total of the linked
\* seats' prices as a decimal string, leaves status as it is and returns the
\* payment URL
C32_PaymentStored ==
    [][\A t \in Tasks :
          PaymentSucceeds(t) =>
              LET b == tasks[t].snap.id
              IN /\ PaymentStored(b)
                 /\ bookings'[b].total_amount = FormatInt(SumPrices(GetSeats(b)))
                 /\ bookings'[b].status = bookings[b].status]_vars

\* without other writers between its read and its write: the total is that
\* of the seats the call read and the status the one it read
C32_PaymentStoredAsRead ==
    [][\A t \in Tasks :
          PaymentSucceeds(t) =>
              LET b == tasks[t].snap.id
              IN /\ PaymentStored(b)
                 /\ bookings'[b].total_amount = FormatInt(SumPrices(tasks[t].todo))
                 /\ bookings'[b].status = tasks[t].snap.status]_vars

\* a payment succeeded for a booking of event 2 that holds seat 2
C32_Witness ==
    /\ last.op = "InitiatePayment" /\ last.res = "OK" /\ last.url # NoURL
    /\ bookings[last.bid].event_id # 1
    /\ bookings[last.bid].status = "CREATED"
    /\ bookings[last.bid].payment_status = "INITIATED"
    /\ bookings[last.bid].total_amount = <<"2", "0", "0", "0">>
    /\ <<last.bid, 2>> \in links

PaymentFails ==
    \/ \E t \in Tasks : /\ tasks[t].op = "InitiatePayment"
                        /\ tasks'[t] = IdleTask
                        /\ last'.res # "OK"
    \/ /\ tasks' = tasks
       /\ ops' = ops + 1
       /\ last'.op = "InitiatePayment"
       /\ last'.res = "NotFound"

C35_ExternalPaymentSkipped ==
    [][\A t \in Tasks :
          (/\ tasks[t].op = "InitiatePayment"
           /\ tasks[t].snap.event_id = 1
           /\ tasks'[t] = IdleTask
           /\ \E p \in DOMAIN remote : remote[p] = tasks[t].snap.order_id) =>
              LET b == tasks[t].snap.id
              IN /\ nextPayment' = nextPayment
                 /\ last'.res = "OK"
                 /\ last'.url = NoURL
                 /\ bookings'[b].status = "CONFIRMED"
                 /\ bookings'[b].payment_status = "COMPLETED"
                 /\ bookings'[b].total_amount # NoAmount]_vars

C37_OneOrderPerBooking ==
    nextOrder - 1 <= Cardinality({b \in BookingIds :
                                    bookings[b].id # 0 /\ bookings[b].event_id = 1})

\* C38: a ReleaseSeat(s) on a seat that no booking in status CREATED or
\* CONFIRMED holds (for example a FREE seat without a booking_seats row)
\* fails with NotFound and changes no seat status and no booking_seats row.
OwningBookings(s) ==
    {b \in BookingIds : bookings[b].id # 0 /\ HeldFor(s, b)
                          /\ bookings[b].status \in {"CREATED", "CONFIRMED"}}

C38_ReleaseWithoutOwnerFails ==
    [][\A s \in Seats :
          (OwningBookings(s) = {} /\ last' # last /\ last'.op = "Release" /\ last'.sid = s)
          => (last'.res = "NotFound" /\ seats' = seats /\ links' = links)]_vars

\* C39: a SelectSeat(b, s) repeated while an earlier SelectSeat(b, s) stands
\* (issued after it, or running beside it) leaves seat s RESERVED with exactly
\* one booking_seats row, (b, s), and alters no other seat, row or booking.
RepeatedSelect(t) ==
    /\ tasks[t].op = "Select" /\ tasks[t].pc \in {"sel_reserve", "sel_ext"}
    /\ tasks[t].bid \in BookingIds /\ HeldFor(tasks[t].sid, tasks[t].bid)

DuplicateChangesNothing(t) ==
    /\ seats' = seats /\ links' = links /\ bookings' = bookings /\ remote' = remote
    /\ seats[tasks[t].sid] = "RESERVED"
    /\ LinkedTo(tasks[t].sid) = {tasks[t].bid}

C39_SelectIsIdempotent ==
    [][\A t \in Tasks : (RepeatedSelect(t) /\ tasks'[t] # tasks[t]) => DuplicateChangesNothing(t)]_vars

\* the same for the bookings of the events whose seats are reserved in the
\* database (every event but event 1)
C39_LocalSelectIsIdempotent ==
    [][\A t \in Tasks : (RepeatedSelect(t) /\ tasks[t].pc = "sel_reserve" /\ tasks'[t] # tasks[t])
                          => DuplicateChangesNothing(t)]_vars

\* C40: a cacheable ListEvents request whose cache read misses or fails, or
\* whose cache write fails, is answered 200 with the list computed from the
\* store; the failure of the cache never reaches the answer.
ValidPaging(a) == a.page >= 1 /\ a.size >= 1 /\ a.size <= 20

====
